---- MODULE Spec2Model ----
(***************************************************************************)
(* Model of the element query and path-navigation engine of axctl          *)
(* (skills/ax-helper/ax_search.py on top of ax_core.py).                   *)
(*                                                                         *)
(* Strings are sequences of one-character strings, so that lower-casing,   *)
(* prefix stripping, path formatting and the regular-expression scan of    *)
(* _parse_path_string are computed character by character.                 *)
(***************************************************************************)
EXTENDS Integers, Sequences, FiniteSets, TLC

(***************************************************************************)
(* Bounds of the model.                                                    *)
(***************************************************************************)
MaxNodes == 4        \* handles the adapter exposes (handle 1 is the root)
MaxDepthArg == 1     \* largest max_depth a caller passes that can prune the tree
MaxCalls == 2        \* query_elements invocations in one behaviour
ClockStep == 30      \* amount the monotonic clock advances in one tick
MaxSelectors == 2    \* selectors in a path handed to the codec
MaxNow == 60         \* the clock stops advancing here

(***************************************************************************)
(* Program constants.                                                      *)
(***************************************************************************)
SearchTimeout == 30  \* ax_search.py:103  deadline = time.monotonic() + 30.0
DefaultMaxDepth == 50    \* ax_search.py:57   max_depth: int = 50
QueryMaxResults == 100   \* ax-helper.py:91   max_results=100
FindMaxResults == 1      \* ax_search.py:437  max_results=1

None == 0                       \* Python None where a handle is expected
NoValue == <<"None">>           \* Python None where an attribute value is expected

(***************************************************************************)
(* Characters and strings.                                                 *)
(***************************************************************************)
UpperChars == <<"A","B","C","D","E","F","G","H","I","J","K","L","M",
                "N","O","P","Q","R","S","T","U","V","W","X","Y","Z">>
LowerChars == <<"a","b","c","d","e","f","g","h","i","j","k","l","m",
                "n","o","p","q","r","s","t","u","v","w","x","y","z">>
DigitChars == <<"0","1","2","3","4","5","6","7","8","9">>

Range(s) == {s[i] : i \in DOMAIN s}

\* one character of str.lower()
LowerMap ==
    [c \in Range(UpperChars) |->
        LowerChars[CHOOSE i \in DOMAIN UpperChars : UpperChars[i] = c]]
LowerChar(c) == IF c \in DOMAIN LowerMap THEN LowerMap[c] ELSE c

\* str.lower()
lower(s) == [i \in DOMAIN s |-> LowerChar(s[i])]

\* s.find(sub): lowest 1-based index where sub occurs in s, 0 when it does not
Find(s, sub) ==
    LET hits == {i \in 1..(Len(s) - Len(sub) + 1) : SubSeq(s, i, i + Len(sub) - 1) = sub}
    IN IF hits = {} THEN 0 ELSE CHOOSE i \in hits : \A j \in hits : i <= j

\* mutant: sub only at the start of s
Contains_at_start(sub, s) == Find(s, sub) = 1
\* the Python operator  sub in s
Contains(sub, s) == Find(s, sub) # 0

\* s.replace(old, new, 1): the first occurrence only, wherever it is
ReplaceFirst(s, old, new) ==
    LET i == Find(s, old)
    IN IF i = 0 THEN s
       ELSE SubSeq(s, 1, i - 1) \o new \o SubSeq(s, i + Len(old), Len(s))

\* str(n) for a non-negative integer
RECURSIVE IntToStr(_)
IntToStr(n) ==
    IF n < 10 THEN <<DigitChars[n + 1]>>
    ELSE IntToStr(n \div 10) \o <<DigitChars[(n % 10) + 1]>>

DigitValue(c) == (CHOOSE i \in DOMAIN DigitChars : DigitChars[i] = c) - 1

\* int(s) for a non-empty string of decimal digits
RECURSIVE StrToInt(_)
StrToInt(s) ==
    IF Len(s) = 1 THEN DigitValue(s[1])
    ELSE 10 * StrToInt(SubSeq(s, 1, Len(s) - 1)) + DigitValue(s[Len(s)])

\* Python truthiness of an attribute value: None and "" are falsy
Truthy(v) == v # NoValue /\ v # <<>>

(***************************************************************************)
(* State.                                                                  *)
(***************************************************************************)
VARIABLES
    kids,           \* adapter: handle -> ordered child handles (AXChildren)
    attrs,          \* adapter: handle -> attribute name -> value
    unserializable, \* adapter: handles whose bulk snapshot fails
    now,            \* time.monotonic()
    pc,             \* "idle" between calls, "search" inside query_elements
    callsLeft,      \* query_elements invocations the caller still makes
    args,           \* arguments of the current / last query_elements call
    results,        \* query_elements: results
    visited,        \* query_elements: visited
    deadline,       \* query_elements: deadline
    stack,          \* activation records of _search_recursive, innermost last
    ret,            \* value returned by the last query_elements call
    resolved,       \* last parse_element_path call: its arguments and result
    log,            \* adapter calls and entries of _search_recursive in this call
    timedOut,       \* the current / last call observed the deadline exceeded
    first,          \* first query_elements call that returned without timing out
    codec,          \* one use of the path codec: selectors, their string, its decoding
    cli             \* one invocation of the command line: command, steps, exit code

treeVars == <<kids, attrs, unserializable>>
searchVars == <<kids, attrs, unserializable, now, pc, callsLeft, args, results, visited,
                deadline, stack, ret, resolved, log, timedOut, first>>
callVars == <<args, results, visited, deadline, stack, log, timedOut>>
vars == <<kids, attrs, unserializable, now, pc, callsLeft, args, results, visited,
          deadline, stack, ret, resolved, log, timedOut, first, codec, cli>>

Handles == 1..MaxNodes
Root == 1

(***************************************************************************)
(* ax_core.py: the element accessor.                                       *)
(***************************************************************************)
kAXRoleAttribute == "AXRole"
kAXTitleAttribute == "AXTitle"
kAXDescriptionAttribute == "AXDescription"
kAXValueAttribute == "AXValue"
kAXIdentifierAttribute == "AXIdentifier"

get_attribute(element, attr_name) ==
    IF element = None THEN NoValue
    ELSE IF attr_name \in DOMAIN attrs[element] THEN attrs[element][attr_name]
    ELSE NoValue

\* mutant: the children are walked in reverse enumeration order
get_children_reversed(element) ==
    IF element = None THEN <<>>
    ELSE [i \in 1..Len(kids[element]) |-> kids[element][Len(kids[element]) + 1 - i]]

get_children(element) ==
    IF element = None THEN <<>> ELSE kids[element]

NoSnapshot == [role |-> <<"no snapshot">>, title |-> <<"no snapshot">>]

\* str(v) if v else None
StrOrNone(v) == IF Truthy(v) THEN v ELSE NoValue

serialize_element(element) ==
    IF element = None \/ element \in unserializable THEN NoSnapshot
    ELSE [role  |-> StrOrNone(get_attribute(element, kAXRoleAttribute)),
          title |-> StrOrNone(get_attribute(element, kAXTitleAttribute))]

(***************************************************************************)
(* ax_search.py: predicate.                                                *)
(***************************************************************************)
attr_map(filter_key) ==
    CASE filter_key = "role" -> kAXRoleAttribute
      [] filter_key = "title" -> kAXTitleAttribute
      [] filter_key = "description" -> kAXDescriptionAttribute
      [] filter_key = "value" -> kAXValueAttribute
      [] filter_key = "identifier" -> kAXIdentifierAttribute
      [] filter_key = "subrole" -> "AXSubrole"
      [] OTHER -> filter_key

\* the dict branch: {k: str(v)} of string values
_normalize_filters(filters) == [k \in DOMAIN filters |-> filters[k]]

\* mutant: a missing attribute is skipped instead of failing the match
_element_matches_filters_skip_missing(element, filters) ==
    \A filter_key \in DOMAIN filters :
        LET attr_value == get_attribute(element, attr_map(filter_key))
        IN \/ attr_value = NoValue
           \/ Contains(lower(filters[filter_key]), lower(attr_value))

\* mutant: an empty filter map matches nothing
_element_matches_filters_empty_false(element, filters) ==
    /\ DOMAIN filters # {}
    /\ \A filter_key \in DOMAIN filters :
          LET attr_value == get_attribute(element, attr_map(filter_key))
          IN /\ attr_value # NoValue
             /\ Contains(lower(filters[filter_key]), lower(attr_value))

_element_matches_filters(element, filters) ==
    \A filter_key \in DOMAIN filters :
        LET attr_value == get_attribute(element, attr_map(filter_key))
        IN /\ attr_value # NoValue
           /\ Contains(lower(filters[filter_key]), lower(attr_value))

(***************************************************************************)
(* ax_search.py: path codec.                                               *)
(***************************************************************************)
WordChars == Range(UpperChars) \cup Range(LowerChars) \cup Range(DigitChars) \cup {"_"}
IsWordChar(c) == c \in WordChars
IsDigitChar(c) == c \in Range(DigitChars)

\* last index of the longest run of word characters starting at i (i - 1: none)
RECURSIVE WordRunEnd(_, _)
WordRunEnd(s, i) ==
    IF i <= Len(s) /\ IsWordChar(s[i]) THEN WordRunEnd(s, i + 1) ELSE i - 1

\* mutant: \d instead of \d+
DigitRunEnd_single(s, i) ==
    IF i <= Len(s) /\ IsDigitChar(s[i]) THEN i ELSE i - 1

RECURSIVE DigitRunEnd(_, _)
DigitRunEnd(s, i) ==
    IF i <= Len(s) /\ IsDigitChar(s[i]) THEN DigitRunEnd(s, i + 1) ELSE i - 1

NoMatch == [role |-> <<>>, index |-> -1, end |-> 0]

\* one match of ([a-zA-Z0-9_]+)\[(\d+)\] starting exactly at i
MatchAt(s, i) ==
    LET j == WordRunEnd(s, i)
    IN IF j < i \/ j + 1 > Len(s) THEN NoMatch
       ELSE IF s[j + 1] # "[" THEN NoMatch
       ELSE LET k == DigitRunEnd(s, j + 2)
            IN IF k < j + 2 \/ k + 1 > Len(s) THEN NoMatch
               ELSE IF s[k + 1] # "]" THEN NoMatch
               ELSE [role |-> SubSeq(s, i, j),
                     index |-> StrToInt(SubSeq(s, j + 2, k)),
                     end |-> k + 1]

\* pattern.finditer(path) from position i on
RECURSIVE FindIter(_, _)
FindIter(s, i) ==
    IF i > Len(s) THEN <<>>
    ELSE LET m == MatchAt(s, i)
         IN IF m = NoMatch THEN FindIter(s, i + 1)
            ELSE <<[role |-> m.role, index |-> m.index]>> \o FindIter(s, m.end + 1)

_parse_path_string(path) == FindIter(path, 1)

\* mutant: the parent's path is left out at every depth
child_path_flat(current_depth, path_prefix, child_role_str, role_idx) ==
    child_role_str \o <<"[">> \o IntToStr(role_idx) \o <<"]">>

\* the f-strings of _search_recursive that build a child's path
child_path(current_depth, path_prefix, child_role_str, role_idx) ==
    IF current_depth = 0
    THEN child_role_str \o <<"[">> \o IntToStr(role_idx) \o <<"]">>
    ELSE path_prefix \o <<".">> \o child_role_str \o <<"[">> \o IntToStr(role_idx) \o <<"]">>

(***************************************************************************)
(* ax_search.py: parse_element_path.                                       *)
(***************************************************************************)
\* lines 363-368: the child has a role and its lower-cased role is the pattern
resolve_role_matches(child, role_pattern) ==
    LET child_role == get_attribute(child, kAXRoleAttribute)
    IN Truthy(child_role) /\ lower(child_role) = role_pattern

\* lines 358-373: the child picked for one segment, None when there is none
find_child(children, role_pattern, target_index) ==
    LET hits == {k \in DOMAIN children :
                    /\ resolve_role_matches(children[k], role_pattern)
                    /\ Cardinality({j \in 1..(k - 1) :
                           resolve_role_matches(children[j], role_pattern)}) = target_index}
    IN IF hits = {} THEN None ELSE children[CHOOSE k \in hits : TRUE]

\* lines 347-382: the loop over the segments, from segment idx on
RECURSIVE navigate(_, _, _)
navigate(current_element, segments, idx) ==
    IF idx > Len(segments) THEN current_element
    ELSE LET children == get_children(current_element)
         IN IF children = <<>> THEN None
            ELSE LET found_element == find_child(children, segments[idx].role,
                                                 segments[idx].index)
                 IN IF found_element = None THEN None
                    ELSE navigate(found_element, segments, idx + 1)

\* mutant: a path without selectors names the application root
parse_element_path_empty_is_root(app_element, path) ==
    IF app_element = None THEN None
    ELSE IF path = <<>> THEN app_element
    ELSE LET segments == _parse_path_string(path)
         IN IF segments = <<>> THEN app_element
            ELSE navigate(app_element, segments, 1)

parse_element_path(app_element, path) ==
    IF app_element = None THEN None
    ELSE IF path = <<>> THEN None
    ELSE LET segments == _parse_path_string(path)
         IN IF segments = <<>> THEN None
            ELSE navigate(app_element, segments, 1)

\* lines 362-371: the children whose role the loop reads for one segment, up to
\* the break
find_child_reads(children, role_pattern, target_index) ==
    LET found_element == find_child(children, role_pattern, target_index)
    IN IF found_element = None THEN children
       ELSE SubSeq(children, 1,
                   CHOOSE k \in DOMAIN children :
                       /\ children[k] = found_element
                       /\ resolve_role_matches(children[k], role_pattern)
                       /\ Cardinality({j \in 1..(k - 1) :
                              resolve_role_matches(children[j], role_pattern)})
                            = target_index)

\* mutant: the children are enumerated a second time when no child was found
RECURSIVE navigate_calls_reenumerate(_, _, _)
navigate_calls_reenumerate(current_element, segments, idx) ==
    IF idx > Len(segments) THEN <<>>
    ELSE LET children == get_children(current_element)
             enum == <<[op |-> "children", h |-> current_element]>>
         IN IF children = <<>> THEN enum
            ELSE LET found_element == find_child(children, segments[idx].role,
                                                 segments[idx].index)
                     read == find_child_reads(children, segments[idx].role,
                                              segments[idx].index)
                     reads == [k \in DOMAIN read |-> [op |-> "role", h |-> read[k]]]
                 IN IF found_element = None THEN enum \o reads \o enum
                    ELSE enum \o reads
                         \o navigate_calls_reenumerate(found_element, segments, idx + 1)

\* the adapter calls of the loop over the segments, in order: get_children of
\* line 352 as "children", get_attribute of line 363 as "role"
RECURSIVE navigate_calls(_, _, _)
navigate_calls(current_element, segments, idx) ==
    IF idx > Len(segments) THEN <<>>
    ELSE LET children == get_children(current_element)
             enum == <<[op |-> "children", h |-> current_element]>>
         IN IF children = <<>> THEN enum
            ELSE LET found_element == find_child(children, segments[idx].role,
                                                 segments[idx].index)
                     read == find_child_reads(children, segments[idx].role,
                                              segments[idx].index)
                     reads == [k \in DOMAIN read |-> [op |-> "role", h |-> read[k]]]
                 IN IF found_element = None THEN enum \o reads
                    ELSE enum \o reads \o navigate_calls(found_element, segments, idx + 1)

\* the adapter calls one parse_element_path call makes
parse_element_path_calls(app_element, path) ==
    IF app_element = None THEN <<>>
    ELSE IF path = <<>> THEN <<>>
    ELSE LET segments == _parse_path_string(path)
         IN IF segments = <<>> THEN <<>>
            ELSE navigate_calls(app_element, segments, 1)

(***************************************************************************)
(* ax_search.py: _search_recursive, one activation record per call.        *)
(***************************************************************************)
\* mutant: the deadline is never looked at
TimedOut_never(dl, t) == FALSE
\* line 153
TimedOut(dl, t) == dl # 0 /\ t > dl
\* mutants: the cap is tested one match too late, one too early, or not at all
ResultsFull_one_early(res, max_results) == Len(res) >= max_results - 1
ResultsFull_never(res, max_results) == FALSE
ResultsFull_one_late(res, max_results) == Len(res) > max_results
\* line 158
ResultsFull(res, max_results) == Len(res) >= max_results
\* mutants: the depth bound cuts one level early, or one level late
TooDeep_at_bound(current_depth, max_depth) == current_depth >= max_depth
TooDeep_one_late(current_depth, max_depth) == current_depth > max_depth + 1
\* mutant: no depth bound
TooDeep_never(current_depth, max_depth) == FALSE
\* line 162
TooDeep(current_depth, max_depth) == current_depth > max_depth
\* mutant: no circular reference protection
AlreadyVisited_never(seen, elem_id) == FALSE
\* lines 167-169
AlreadyVisited(seen, elem_id) == elem_id \in seen

\* mutant: the snapshot is stored without looking at it
snapshot_ok_unchecked(serialized) == TRUE
\* line 179: if serialized
snapshot_ok(serialized) == serialized # NoSnapshot

\* lines 180-181 on an absent snapshot: item assignment on None raises TypeError,
\* which nothing in _search_recursive or query_elements catches
store_raises(serialized) == serialized = NoSnapshot

\* lines 196-200
child_role_str(child) ==
    LET child_role == get_attribute(child, kAXRoleAttribute)
        s == IF Truthy(child_role) THEN lower(child_role)
             ELSE <<"e","l","e","m","e","n","t">>
    IN ReplaceFirst(s, <<"a","x">>, <<>>)

\* mutant: an activation that is cut short marks its element visited all the same
visited_on_return_marked(seen, elem_id) == seen \cup {elem_id}
\* lines 152-163: the three early returns come before visited.add(elem_id)
visited_on_return(seen, elem_id) == seen

\* mutant: the raw enumeration index instead of the per-role counter
RECURSIVE counter_total(_)
counter_total(role_counters) ==
    IF DOMAIN role_counters = {} THEN 0
    ELSE LET t == CHOOSE x \in DOMAIN role_counters : TRUE
         IN role_counters[t]
            + counter_total([u \in DOMAIN role_counters \ {t} |-> role_counters[u]])
counter_get_positional(role_counters, tok) == counter_total(role_counters)

\* line 203: role_counters.get(child_role_str, 0)
counter_get(role_counters, tok) ==
    IF tok \in DOMAIN role_counters THEN role_counters[tok] ELSE 0

\* mutant: the counter of a role is written back without the child counted
counter_set_stuck(role_counters, tok, n) ==
    [t \in DOMAIN role_counters \cup {tok} |->
        IF t = tok THEN n - 1 ELSE role_counters[t]]

\* line 204: role_counters[child_role_str] = role_idx + 1
counter_set(role_counters, tok, n) ==
    [t \in DOMAIN role_counters \cup {tok} |-> IF t = tok THEN n ELSE role_counters[t]]

\* mutant: the visited set outlives the call
shared_visited == visited
\* line 102: visited = set(), a fresh set for every query_elements call
fresh_visited == {}

\* line 192: a fresh dict for every activation
fresh_counters == <<>>

Frame(element, current_depth, path_prefix) ==
    [element |-> element, current_depth |-> current_depth, path_prefix |-> path_prefix,
     phase |-> "enter", children |-> <<>>, i |-> 1, role_counters |-> fresh_counters]

Top == stack[Len(stack)]
Pop == SubSeq(stack, 1, Len(stack) - 1)
ReplaceTop(f) == [stack EXCEPT ![Len(stack)] = f]

\* what the instrumentation records of one adapter call or activation
Event(op, h, depth) ==
    [op |-> op, h |-> h, depth |-> depth, n |-> Len(results),
     late |-> now > deadline]

\* lines 152-188: entry of _search_recursive up to the children loop
Visit ==
    /\ pc = "search"
    /\ stack # <<>>
    /\ Top.phase = "enter"
    /\ LET f == Top
           call == Event("call", f.element, f.current_depth)
       IN IF TimedOut(deadline, now)
          THEN /\ timedOut' = TRUE
               /\ log' = Append(log, call)
               /\ stack' = Pop
               /\ visited' = visited_on_return(visited, f.element)
               /\ UNCHANGED <<results, pc>>
          ELSE IF \/ ResultsFull(results, args.max_results)
                  \/ TooDeep(f.current_depth, args.max_depth)
                  \/ AlreadyVisited(visited, f.element)
          THEN /\ log' = Append(log, call)
               /\ stack' = Pop
               /\ visited' = IF AlreadyVisited(visited, f.element) THEN visited
                              ELSE visited_on_return(visited, f.element)
               /\ UNCHANGED <<results, timedOut, pc>>
          ELSE LET matched == _element_matches_filters(f.element, args.filters)
                   serialized == serialize_element(f.element)
                   children == get_children(f.element)
                   hit == matched /\ snapshot_ok(serialized)
               IN /\ visited' = visited \cup {f.element}
                  /\ pc' = IF hit /\ store_raises(serialized) THEN "fault" ELSE pc
                  /\ results' =
                        IF hit /\ ~store_raises(serialized)
                        THEN Append(results, [elem |-> f.element,
                                              role |-> serialized.role,
                                              title |-> serialized.title,
                                              path |-> f.path_prefix,
                                              depth |-> f.current_depth])
                        ELSE results
                  /\ log' = log \o <<call, Event("match", f.element, f.current_depth)>>
                            \o (IF matched
                                THEN <<Event("snapshot", f.element, f.current_depth)>>
                                ELSE <<>>)
                            \o <<Event("children", f.element, f.current_depth)>>
                  /\ stack' = IF children = <<>> THEN Pop
                              ELSE ReplaceTop([f EXCEPT !.phase = "loop",
                                                        !.children = children])
                  /\ UNCHANGED timedOut
    /\ UNCHANGED <<codec, cli, kids, attrs, unserializable, now, callsLeft, args, deadline,
                   ret, resolved, first>>

\* lines 194-222: one iteration of the children loop, up to the recursive call
Descend ==
    /\ pc = "search"
    /\ stack # <<>>
    /\ Top.phase = "loop"
    /\ Top.i <= Len(Top.children)
    /\ LET f == Top
           child == f.children[f.i]
           tok == child_role_str(child)
           role_idx == counter_get(f.role_counters, tok)
           path == child_path(f.current_depth, f.path_prefix, tok, role_idx)
       IN /\ stack' = Append(ReplaceTop([f EXCEPT !.i = f.i + 1,
                                                  !.role_counters =
                                                      counter_set(f.role_counters, tok,
                                                                  role_idx + 1)]),
                             Frame(child, f.current_depth + 1, path))
          /\ log' = Append(log, Event("role", child, f.current_depth + 1))
    /\ UNCHANGED <<codec, cli, kids, attrs, unserializable, now, pc, callsLeft, args, results,
                   visited, deadline, ret, resolved, timedOut, first>>

\* the children loop is exhausted: the activation returns
Return ==
    /\ pc = "search"
    /\ stack # <<>>
    /\ Top.phase = "loop"
    /\ Top.i > Len(Top.children)
    /\ stack' = Pop
    /\ UNCHANGED <<codec, cli, kids, attrs, unserializable, now, pc, callsLeft, args, results,
                   visited, deadline, ret, resolved, log, timedOut, first>>

(***************************************************************************)
(* ax_search.py: query_elements and the callers' use of parse_element_path.*)
(***************************************************************************)
Str_row == <<"r","o","w">>
Str_Row == <<"R","o","w">>
Str_ok == <<"o","k">>

\* predicates the caller passes
FilterArgs ==
    { <<>>,
      [k \in {"role"} |-> Str_row],
      [k \in {"role", "title"} |-> IF k = "role" THEN Str_Row ELSE Str_ok] }

\* (max_depth, max_results) pairs the caller passes: every depth with the command
\* line's cap, and the caps of the other callers and a negative one
BoundArgs ==
    {<<d, QueryMaxResults>> : d \in (0..MaxDepthArg) \cup {DefaultMaxDepth}}
    \cup {<<DefaultMaxDepth, FindMaxResults>>, <<MaxDepthArg, FindMaxResults>>,
          <<DefaultMaxDepth, -1>>}

AllArgs ==
    {[app_element |-> Root, filters |-> f, max_depth |-> b[1], max_results |-> b[2]] :
        f \in FilterArgs, b \in BoundArgs}
    \cup {[app_element |-> None, filters |-> <<>>, max_depth |-> DefaultMaxDepth,
           max_results |-> QueryMaxResults]}

NoArgs == [app_element |-> None, filters |-> <<>>, max_depth |-> -1, max_results |-> -1]
NoResolve == [app_element |-> None, path |-> <<>>, from |-> 0, out |-> None,
              calls |-> <<>>, called |-> FALSE]
NoFirst == [set |-> FALSE, ret |-> <<>>]
NoCodec == [stage |-> "off"]
NoCli == [stage |-> "off"]

\* the first call's arguments are free; later calls of the behaviour repeat them
QueryInputs == IF args = NoArgs THEN AllArgs ELSE {args}

\* lines 94-119 of query_elements
StartSearch(a) ==
    /\ pc = "idle"
    /\ callsLeft > 0
    /\ callsLeft' = callsLeft - 1
    /\ args' = [a EXCEPT !.filters = _normalize_filters(a.filters)]
    /\ results' = <<>>
    /\ visited' = fresh_visited
    /\ log' = <<>>
    /\ timedOut' = FALSE
    /\ resolved' = NoResolve
    /\ ret' = <<>>
    /\ IF a.app_element = None
       THEN /\ pc' = "idle"
            /\ stack' = <<>>
            /\ UNCHANGED deadline
       ELSE /\ pc' = "search"
            /\ deadline' = now + SearchTimeout
            /\ stack' = <<Frame(a.app_element, 0, <<>>)>>
    /\ UNCHANGED <<codec, cli, kids, attrs, unserializable, now, first>>

\* lines 121-122 of query_elements
FinishSearch ==
    /\ pc = "search"
    /\ stack = <<>>
    /\ pc' = "idle"
    /\ ret' = results
    /\ first' = IF ~first.set /\ ~timedOut THEN [set |-> TRUE, ret |-> results]
                ELSE first
    /\ UNCHANGED <<codec, cli, kids, attrs, unserializable, now, callsLeft, args, results, visited,
                   deadline, stack, resolved, log, timedOut>>

\* path strings a caller passes that no search returned
SamplePaths ==
    { <<>>,
      <<"r","o","w","[","-","1","]">>,
      <<"r","o","w","[","1","]">>,
      <<"a","x","r","o","w","[","0","]",".","r","o","w","[","0","]">>,
      <<"a","x","r","o","w","[","0","]",".","a","x","r","o","w","[","0","]",".",
        "a","x","r","o","w","[","1","]",".","a","x","r","o","w","[","0","]">> }

\* parse_element_path called once between searches: on a path of the last result
\* (from > 0), or before any search on a path of the caller's own (from = 0)
Resolve(app_element, path, from) ==
    /\ pc = "idle"
    /\ ~resolved.called
    /\ from = 0 => args = NoArgs
    /\ resolved' = [app_element |-> app_element, path |-> path, from |-> from,
                    out |-> parse_element_path(app_element, path),
                    calls |-> parse_element_path_calls(app_element, path),
                    called |-> TRUE]
    /\ UNCHANGED <<codec, cli, kids, attrs, unserializable, now, pc, callsLeft, args, results,
                   visited, deadline, stack, ret, log, timedOut, first>>

\* time.monotonic() advances while a search is running; the engine reads the clock
\* only at the head of an activation, so the time that passed since the previous
\* reading is added just before the next one
Tick ==
    /\ pc = "search"
    /\ stack # <<>> /\ Top.phase = "enter"
    /\ now + ClockStep <= MaxNow
    /\ now' = now + ClockStep
    /\ UNCHANGED <<codec, cli, kids, attrs, unserializable, pc, callsLeft, args, results, visited,
                   deadline, stack, ret, resolved, log, timedOut, first>>

(***************************************************************************)
(* The adapter's trees.                                                    *)
(***************************************************************************)
Str_AXRow == <<"A","X","R","o","w">>
Str_Fax == <<"F","a","x">>
Str_OK == <<"O","K">>
Str_AXApplication == <<"A","X","A","p","p","l","i","c","a","t","i","o","n">>

Attr_AXRow == [a \in {kAXRoleAttribute, kAXTitleAttribute} |->
                 IF a = kAXRoleAttribute THEN Str_AXRow ELSE Str_OK]
Attr_row == [a \in {kAXRoleAttribute} |-> Str_row]
Attr_norole == [a \in {kAXTitleAttribute} |-> Str_OK]
Attr_Fax == [a \in {kAXRoleAttribute} |-> Str_Fax]
Attr_root == [a \in {kAXRoleAttribute} |-> Str_AXApplication]

AttrChoices == {Attr_AXRow, Attr_norole}

\* the elements of a set of handles in increasing order
RECURSIVE SortedSeq(_)
SortedSeq(S) ==
    IF S = {} THEN <<>>
    ELSE LET m == CHOOSE x \in S : \A y \in S : x <= y
         IN <<m>> \o SortedSeq(S \ {m})

\* every handle but the root has one parent with a smaller number
ParentVecs == {p \in [2..MaxNodes -> 1..(MaxNodes - 1)] : \A i \in 2..MaxNodes : p[i] < i}

\* children in handle order; an extra edge <<f, t>> makes f report t as its last child
KidsOf(p, extra) ==
    [h \in Handles |->
        SortedSeq({i \in 2..MaxNodes : p[i] = h})
        \o (IF extra # <<>> /\ extra[1] = h THEN <<extra[2]>> ELSE <<>>)]

ExtraEdges == {<<MaxNodes - 1, t>> : t \in Handles}

AttrsOf(f) == [h \in Handles |-> IF h = Root THEN Attr_root ELSE f[h]]

InitIdle(n) ==
    /\ now = 0
    /\ pc = "idle"
    /\ callsLeft = n
    /\ args = NoArgs
    /\ results = <<>>
    /\ visited = {}
    /\ deadline = 0
    /\ stack = <<>>
    /\ ret = <<>>
    /\ resolved = NoResolve
    /\ log = <<>>
    /\ timedOut = FALSE
    /\ first = NoFirst

InitCall(n) ==
    /\ InitIdle(n)
    /\ codec = NoCodec
    /\ cli = NoCli

\* proper trees whose elements have a prefixed role or no role at all
InitTrees ==
    /\ \E p \in ParentVecs : kids = KidsOf(p, <<>>)
    /\ \E f \in [2..MaxNodes -> AttrChoices] : attrs = AttrsOf(f)
    /\ unserializable = {}

\* graphs: a node reports an ancestor, itself or another node as a child
InitGraphs ==
    /\ \E p \in ParentVecs, e \in ExtraEdges : kids = KidsOf(p, e)
    /\ attrs = AttrsOf([h \in 2..MaxNodes |-> Attr_AXRow])
    /\ unserializable = {}

\* trees of unprefixed roles, one of which holds "ax" after its first character
InitOddRoles ==
    /\ \E p \in ParentVecs : kids = KidsOf(p, <<>>)
    /\ \E h \in 2..MaxNodes :
          attrs = AttrsOf([g \in 2..MaxNodes |-> IF g = h THEN Attr_Fax ELSE Attr_row])
    /\ unserializable = {}

\* trees with one element whose snapshot fails
InitBroken ==
    /\ \E p \in ParentVecs : kids = KidsOf(p, <<>>)
    /\ attrs = AttrsOf([h \in 2..MaxNodes |-> Attr_AXRow])
    /\ \E h \in Handles : unserializable = {h}

\* one query_elements call, then path resolution
Init ==
    /\ InitCall(1)
    /\ \/ InitTrees
       \/ InitGraphs
       \/ InitOddRoles
       \/ InitBroken

Next ==
    \/ \E a \in QueryInputs : StartSearch(a)
    \/ Visit
    \/ Descend
    \/ Return
    \/ FinishSearch
    \/ \E i \in 1..Len(ret) : Resolve(args.app_element, ret[i].path, i)
    \/ \E p \in SamplePaths : Resolve(Root, p, 0)
    \/ Resolve(None, Str_row \o <<"[", "0", "]">>, 0)
    \/ Tick

Spec == Init /\ [][Next]_vars

\* the same query repeated MaxCalls times on graphs and on broken trees
InitRepeat ==
    /\ InitCall(MaxCalls)
    /\ \/ InitGraphs
       \/ InitOddRoles
       \/ InitBroken

SpecRepeat == InitRepeat /\ [][Next]_vars

(***************************************************************************)
(* Vocabulary of the properties.                                           *)
(***************************************************************************)
ResultElems == {results[i].elem : i \in DOMAIN results}
Called == args # NoArgs

\* the predicate of the specification: every key's attribute exists, is non-null
\* and contains the pattern, case-insensitively
Satisfies(h, filters) ==
    \A key \in DOMAIN filters :
        LET a == attr_map(key)
        IN /\ a \in DOMAIN attrs[h]
           /\ attrs[h][a] # NoValue
           /\ LET v == lower(attrs[h][a])
                  pat == lower(filters[key])
              IN \E i \in 0..(Len(v) - Len(pat)) :
                     \A j \in 1..Len(pat) : v[i + j] = pat[j]

\* an activation that nothing of the budget stops: within max_depth, before
\* max_results matches, before the deadline
InBudget(e) ==
    /\ e.op = "call"
    /\ e.depth <= args.max_depth
    /\ e.n < args.max_results
    /\ ~e.late

LastSelector(path) ==
    LET segs == _parse_path_string(path) IN segs[Len(segs)]

\* every handle but the root is the child of exactly one handle, once
IsTree ==
    /\ \A h \in Handles : Root \notin Range(kids[h])
    /\ \A c \in Handles \ {Root} : \E h \in Handles : c \in Range(kids[h])
    /\ \A h \in Handles : Cardinality(Range(kids[h])) = Len(kids[h])
    /\ \A h1, h2 \in Handles :
          h1 < h2 => Range(kids[h1]) \cap Range(kids[h2]) = {}

\* the pre-order numbering of a tree
RECURSIVE PreOrder(_)
RECURSIVE PreOrderAll(_)
PreOrder(h) == <<h>> \o PreOrderAll(kids[h])
PreOrderAll(hs) ==
    IF hs = <<>> THEN <<>> ELSE PreOrder(Head(hs)) \o PreOrderAll(Tail(hs))
ParentOf(c) == CHOOSE h \in Handles : c \in Range(kids[h])

\* handles reachable from h by one or more child edges
RECURSIVE Closure(_, _)
Closure(S, n) ==
    IF n = 0 THEN S
    ELSE Closure(S \cup UNION {Range(kids[x]) : x \in S}, n - 1)
Descendants(h) == Closure(Range(kids[h]), MaxNodes)
Cyclic == \E h \in Handles : h \in Descendants(h)

\* work the running search can still do: a handle not yet visited can open one
\* children loop; an activation in its loop has its remaining iterations, each of
\* which opens one activation
UnvisitedWork(h) == 2 * Len(kids[h]) + 1
FrameWork(k) ==
    IF stack[k].phase = "enter" THEN 1
    ELSE 2 * (Len(stack[k].children) - stack[k].i + 1) + 1

RECURSIVE SumUnvisited(_)
SumUnvisited(S) ==
    IF S = {} THEN 0
    ELSE LET x == CHOOSE y \in S : TRUE IN UnvisitedWork(x) + SumUnvisited(S \ {x})

RECURSIVE SumFrames(_)
SumFrames(n) == IF n = 0 THEN 0 ELSE FrameWork(n) + SumFrames(n - 1)

Variant == SumUnvisited(Handles \ visited) + SumFrames(Len(stack))

(***************************************************************************)
(* C1. Round trip: resolving the path of a search result on the unchanged  *)
(* tree returns the element the search matched there, for every result,    *)
(* the root's and those of prefixed roles included.                        *)
(***************************************************************************)
RoundTrip ==
    (resolved.called /\ resolved.from > 0)
        => resolved.out = ret[resolved.from].elem

(***************************************************************************)
(* C2. The selector the traversal assigns to a child is the one resolution *)
(* recognises it by: the child's role-token in resolution equals the       *)
(* assigned token, and the assigned ordinal picks that child.              *)
(***************************************************************************)
SameSelectors ==
    \A k \in 2..Len(stack) :
        LET sel == LastSelector(stack[k].path_prefix)
        IN /\ resolve_role_matches(stack[k].element, sel.role)
           /\ find_child(stack[k - 1].children, sel.role, sel.index) = stack[k].element

(***************************************************************************)
(* C3. Soundness: every element in the result list satisfies the predicate.*)
(***************************************************************************)
Soundness ==
    \A i \in DOMAIN results : Satisfies(results[i].elem, args.filters)

SoundnessWitness ==
    /\ pc = "idle"
    /\ results # <<>>
    /\ args.filters # <<>>
    /\ \E h \in visited : ~Satisfies(h, args.filters)

DepthBound ==
    /\ \A i \in DOMAIN results :
          /\ results[i].depth <= args.max_depth
          /\ Len(_parse_path_string(results[i].path)) <= args.max_depth
    /\ \A k \in DOMAIN log :
          log[k].op \in {"match", "snapshot", "children"}
              => log[k].depth <= args.max_depth

DepthBoundWitness ==
    /\ pc = "idle"
    /\ \E i \in DOMAIN results : results[i].depth = args.max_depth /\ results[i].depth > 0
    /\ \E k \in DOMAIN log :
          /\ log[k].op = "call"
          /\ log[k].depth = args.max_depth + 1
          /\ Satisfies(log[k].h, args.filters)

(***************************************************************************)
(* C6. Result bound, as claimed: the result list never holds more than     *)
(* max_results entries, for every integer max_results.                     *)
(***************************************************************************)
ResultBound ==
    Called => (Len(results) <= args.max_results /\ Len(ret) <= args.max_results)

\* C6 amended: for every max_results >= 0 the result list never holds more than
\* max_results entries, during the traversal and on return.
ResultBoundNonNegative ==
    (Called /\ args.max_results >= 0)
        => (Len(results) <= args.max_results /\ Len(ret) <= args.max_results)

ResultBoundWitness ==
    /\ pc = "idle"
    /\ Len(ret) = args.max_results
    /\ Len(ret) > 0
    /\ \E k \in DOMAIN log :
          /\ log[k].op = "call"
          /\ log[k].n >= args.max_results
          /\ Satisfies(log[k].h, args.filters)

(***************************************************************************)
(* C7. Cycle safety: every step of a running search strictly decreases a   *)
(* natural number that depends neither on max_depth nor on the deadline,   *)
(* so the search ends; its result list is no longer than the set of        *)
(* visited handles.                                                        *)
(***************************************************************************)
CycleSafety ==
    /\ [](Variant >= 0 /\ Len(results) <= Cardinality(visited))
    /\ [][(pc = "search" /\ stack' # stack) => Variant' < Variant]_vars

CycleSafetyWitness ==
    /\ Cyclic
    /\ pc = "idle"
    /\ ~timedOut
    /\ args.max_depth = DefaultMaxDepth
    /\ \E j, k \in DOMAIN log :
          /\ j < k
          /\ InBudget(log[j])
          /\ InBudget(log[k])
          /\ log[j].h = log[k].h
          /\ log[k].h \in Descendants(log[k].h)

(***************************************************************************)
(* C8. Determinism and call isolation: a call that returns without timing  *)
(* out returns what the first such call of the same query returned, same   *)
(* elements, same paths, same order, whatever ran in between.              *)
(***************************************************************************)
Determinism ==
    (pc = "idle" /\ first.set /\ ~timedOut /\ args.app_element # None)
        => ret = first.ret

DeterminismWitness ==
    /\ pc = "idle"
    /\ callsLeft = 0
    /\ first.set
    /\ ~timedOut
    /\ Len(ret) >= 2
    /\ Cyclic

(***************************************************************************)
(* C9. Pre-order: on a tree the activations, the predicate tests and the   *)
(* results all come in increasing pre-order number, and an element is      *)
(* tested before any of its children is reached.                           *)
(***************************************************************************)
PreOrderResults ==
    IsTree =>
        LET order == PreOrder(Root)
            pos == [h \in Handles |->
                       IF h \in Range(order)
                       THEN CHOOSE i \in DOMAIN order : order[i] = h ELSE 0]
            parent == [c \in Handles |->
                          IF c = Root THEN None ELSE ParentOf(c)]
        IN  /\ \A i, j \in DOMAIN results :
                  i < j => pos[results[i].elem] < pos[results[j].elem]
            /\ \A j, k \in DOMAIN log :
                  (j < k /\ log[j].op = log[k].op /\ log[j].op \in {"call", "match"})
                      => pos[log[j].h] < pos[log[k].h]
            /\ \A k \in DOMAIN log :
                  (log[k].op \in {"role", "call"} /\ log[k].h # Root)
                      => \E j \in 1..(k - 1) :
                            log[j].op = "match" /\ log[j].h = parent[log[k].h]

PreOrderWitness ==
    /\ IsTree
    /\ pc = "idle"
    /\ Len(results) = MaxNodes
    /\ \E h \in Handles : Len(kids[h]) >= 2
    /\ \E i \in DOMAIN results : results[i].depth >= 2

(***************************************************************************)
(* C10. Per-role sibling index: the last selector of a child's path holds  *)
(* the child's role-token and the number of earlier children of the same   *)
(* parent with that role-token.                                            *)
(***************************************************************************)
SiblingIndex ==
    \A k \in 2..Len(stack) :
        LET siblings == stack[k - 1].children
            j == stack[k - 1].i - 1
            tok == child_role_str(siblings[j])
            sel == LastSelector(stack[k].path_prefix)
        IN /\ siblings[j] = stack[k].element
           /\ sel.role = tok
           /\ sel.index = Cardinality({m \in 1..(j - 1) :
                                          child_role_str(siblings[m]) = tok})

SiblingIndexWitness ==
    \E k \in 2..Len(stack) :
        LET siblings == stack[k - 1].children
            j == stack[k - 1].i - 1
        IN /\ j = 3
           /\ child_role_str(siblings[1]) = child_role_str(siblings[3])
           /\ child_role_str(siblings[2]) # child_role_str(siblings[3])
           /\ LastSelector(stack[k].path_prefix).index = 1

(***************************************************************************)
(* Vocabulary of the resolver's claims.                                    *)
(***************************************************************************)
\* the role-token of the specification: the role case-folded, the namespace
\* prefix "ax" removed when the role starts with it; "element" without a role
RoleToken(h) ==
    LET r == get_attribute(h, kAXRoleAttribute)
    IN IF ~Truthy(r) THEN <<"e","l","e","m","e","n","t">>
       ELSE LET l == lower(r)
            IN IF Len(l) >= 2 /\ SubSeq(l, 1, 2) = <<"a","x">>
               THEN SubSeq(l, 3, Len(l)) ELSE l

\* the index-th (0-based) child whose role-token is role, None when there are
\* fewer than index + 1 of them
SelectorPick(children, role, index) ==
    LET hits == {k \in DOMAIN children :
                    /\ RoleToken(children[k]) = role
                    /\ Cardinality({j \in 1..(k - 1) :
                           RoleToken(children[j]) = role}) = index}
    IN IF hits = {} THEN None ELSE children[CHOOSE k \in hits : TRUE]

RECURSIVE FollowSelectors(_, _, _)
FollowSelectors(current, selectors, idx) ==
    IF idx > Len(selectors) THEN current
    ELSE LET next == SelectorPick(kids[current], selectors[idx].role,
                                  selectors[idx].index)
         IN IF next = None THEN None ELSE FollowSelectors(next, selectors, idx + 1)

(***************************************************************************)
(* C11. Resolve follows the selectors exactly: from the root, each selector*)
(* (role, index) moves to the index-th child whose role-token is role, a   *)
(* missing child makes the call return not-found, and the node reached     *)
(* after the last selector is returned.                                    *)
(***************************************************************************)
ResolveExact ==
    (/\ resolved.called
     /\ resolved.app_element # None
     /\ _parse_path_string(resolved.path) # <<>>)
        => resolved.out = FollowSelectors(resolved.app_element,
                                          _parse_path_string(resolved.path), 1)

RECURSIVE RenderSelectors(_)
RenderSelectors(selectors) ==
    IF selectors = <<>> THEN <<>>
    ELSE LET sel == selectors[Len(selectors)]
             seg == sel.role \o <<"[">> \o IntToStr(sel.index) \o <<"]">>
         IN IF Len(selectors) = 1 THEN seg
            ELSE RenderSelectors(SubSeq(selectors, 1, Len(selectors) - 1))
                 \o <<".">> \o seg

\* the depth of a handle in a tree
RECURSIVE TreeDepth(_)
TreeDepth(h) == IF h = Root THEN 0 ELSE 1 + TreeDepth(ParentOf(h))

\* a call on the root that has returned, neither cut by the deadline nor by the cap
Unbounded ==
    /\ pc = "idle"
    /\ Called
    /\ args.app_element # None
    /\ ~timedOut
    /\ Len(ret) < args.max_results

(***************************************************************************)
(* C13. Every path of a result is a non-empty sequence of selectors        *)
(* rendered as role[idx] segments joined by '.', the path of a match on    *)
(* the root included.                                                      *)
(***************************************************************************)
PathsNonEmpty ==
    \A i \in DOMAIN results :
        LET selectors == _parse_path_string(results[i].path)
        IN /\ selectors # <<>>
           /\ RenderSelectors(selectors) = results[i].path

PredicateSemantics ==
    Called =>
        /\ \A h \in Handles :
              _element_matches_filters(h, args.filters) <=> Satisfies(h, args.filters)
        /\ \A k \in DOMAIN log :
              log[k].op = "match" =>
                  (Satisfies(log[k].h, args.filters)
                      <=> (log[k + 1].op = "snapshot" /\ log[k + 1].h = log[k].h))

PredicateSemanticsWitness ==
    /\ pc = "idle"
    /\ DOMAIN args.filters = {"role", "title"}
    /\ \E h \in ResultElems : attrs[h][kAXRoleAttribute] # lower(attrs[h][kAXRoleAttribute])
    /\ \E h \in visited \ ResultElems : kAXRoleAttribute \notin DOMAIN attrs[h]
    /\ \E h \in visited \ ResultElems :
          /\ kAXRoleAttribute \in DOMAIN attrs[h]
          /\ ~Contains(lower(args.filters["role"]), lower(attrs[h][kAXRoleAttribute]))

(***************************************************************************)
(* C16. Snapshots are cost-controlled: serialize_element is called only on *)
(* the element whose predicate test has just succeeded, and never when     *)
(* max_results matches are already collected.                              *)
(***************************************************************************)
SnapshotCost ==
    \A k \in DOMAIN log :
        log[k].op = "snapshot" =>
            /\ k > 1
            /\ log[k - 1].op = "match"
            /\ log[k - 1].h = log[k].h
            /\ Satisfies(log[k].h, args.filters)
            /\ log[k].n < args.max_results

SnapshotCostWitness ==
    /\ pc = "idle"
    /\ args.filters # <<>>
    /\ \E k \in DOMAIN log : log[k].op = "snapshot"
    /\ \E k \in DOMAIN log :
          /\ log[k].op = "match"
          /\ ~Satisfies(log[k].h, args.filters)
          /\ log[k + 1].op # "snapshot"
    /\ \E k \in DOMAIN log :
          /\ log[k].op = "call"
          /\ log[k].n >= args.max_results
          /\ Satisfies(log[k].h, args.filters)
          /\ log[k].h \notin visited

(***************************************************************************)
(* C17. Time bound: an activation tests the deadline before anything else; *)
(* after one activation has seen it exceeded the call tests no predicate,  *)
(* takes no snapshot, enumerates no children and adds no match, and it     *)
(* returns the matches collected before that activation.                   *)
(***************************************************************************)
TimeBound ==
    /\ \A k \in DOMAIN log :
          log[k].op \in {"match", "snapshot", "children"} => ~log[k].late
    /\ \A j, k \in DOMAIN log :
          (j < k /\ log[j].op = "call" /\ log[j].late)
              => /\ log[k].op \in {"call", "role"}
                 /\ log[k].late
                 /\ log[k].n = log[j].n
    /\ timedOut <=> \E j \in DOMAIN log : log[j].op = "call" /\ log[j].late
    /\ \A j \in DOMAIN log :
          (log[j].op = "call" /\ log[j].late)
              => (Len(results) = log[j].n /\ (pc = "idle" => ret = results))

TimeBoundWitness ==
    /\ pc = "idle"
    /\ timedOut
    /\ Len(ret) >= 1
    /\ Len(ret) < args.max_results
    /\ \E j, k \in DOMAIN log :
          /\ j < k
          /\ log[j].op = "call" /\ log[j].late
          /\ log[k].op = "call"
          /\ log[k].depth <= args.max_depth
          /\ log[k].h \notin visited
          /\ Satisfies(log[k].h, args.filters)
          /\ log[k].h \notin unserializable

(***************************************************************************)
(* C18. The time budget is the caller's: whatever timeout the caller asks  *)
(* for, the deadline of the call is its start time plus that timeout.      *)
(***************************************************************************)
\* budgets a caller asks for: one clock step, the whole horizon
TimeoutArgs == {ClockStep, MaxNow}

BudgetIsArgument ==
    [][\A timeout \in TimeoutArgs :
          (pc = "idle" /\ pc' = "search") => deadline' = now + timeout]_vars

(***************************************************************************)
(* C19. The role-token the traversal puts into a child's path is the       *)
(* child's role lower-cased, with "ax" removed only when the role starts   *)
(* with it.                                                                *)
(***************************************************************************)
RoleTokenPrefixOnly ==
    \A k \in 2..Len(stack) :
        /\ child_role_str(stack[k].element) = RoleToken(stack[k].element)
        /\ LastSelector(stack[k].path_prefix).role = RoleToken(stack[k].element)

(***************************************************************************)
(* C20. Path assignment is one pass done up front: the children of a       *)
(* visited node are enumerated once, and on a tree the roles of all of     *)
(* them are read before the traversal enters any of them.                  *)
(***************************************************************************)
SinglePassUpFront ==
    /\ \A j, k \in DOMAIN log :
          (j < k /\ log[j].op = "children" /\ log[k].op = "children")
              => log[j].h # log[k].h
    /\ IsTree =>
          \A j, k \in DOMAIN log :
              (/\ log[j].op = "call"
               /\ log[k].op = "role"
               /\ log[j].h # Root
               /\ ParentOf(log[j].h) = ParentOf(log[k].h))
                  => k < j

(***************************************************************************)
(* C21. No fault: whatever the adapter answers (an absent attribute, no    *)
(* children, an absent snapshot) and also for an absent root, a search is  *)
(* running or has returned a list of entries, possibly partial or empty,   *)
(* and a resolution has returned a handle or not-found; no call is in a    *)
(* fault state, neither after a cut by max_depth, max_results or the       *)
(* deadline.                                                               *)
(***************************************************************************)
NoFault ==
    /\ pc \in {"idle", "search"}
    /\ \A i \in DOMAIN ret : ret[i].elem \in Handles \ unserializable
    /\ (pc = "idle" /\ Called) => ret = results
    /\ (pc = "idle" /\ Called /\ args.app_element = None) => ret = <<>>
    /\ resolved.called => resolved.out \in Handles \cup {None}

NoFaultWitness ==
    /\ pc = "idle"
    /\ timedOut
    /\ Len(ret) >= 1
    /\ \E h \in visited \cap unserializable : Satisfies(h, args.filters)
    /\ \E k \in DOMAIN log : log[k].op = "call" /\ log[k].depth > args.max_depth

(***************************************************************************)
(* The path codec on its own: a selector sequence is written the way       *)
(* _search_recursive writes paths, other text may be put around and        *)
(* between the segments, and _parse_path_string reads the string back.     *)
(***************************************************************************)
\* role tokens of letters, digits and underscores; indices of one and two digits
CodecTokens == {<<"r","o","w">>, <<"A","X","_","1">>, <<"9">>}
CodecIndices == {0, 7, 10}
CodecSelectors == [role : CodecTokens, index : CodecIndices]
SelectorSeqs == UNION {[1..n -> CodecSelectors] : n \in 1..MaxSelectors}

\* the path _search_recursive builds along a chain of children with these selectors
RECURSIVE encode_path(_)
encode_path(selectors) ==
    IF selectors = <<>> THEN <<>>
    ELSE LET n == Len(selectors)
         IN child_path(n - 1, encode_path(SubSeq(selectors, 1, n - 1)),
                       selectors[n].role, selectors[n].index)

\* text that holds no token[integer] occurrence and does not end in a word character
JunkBefore == {<<>>, <<" ">>, <<"x",".">>, <<"[","1","]">>, <<"r","o","w","[","-","1","]">>}
JunkBetween == {<<>>, <<".",".">>, <<" ",">"," ">>, <<"/","x","/">>}
JunkAfter == {<<>>, <<".">>, <<"[">>, <<".","x">>}

\* the segments of a path with other text before, between and after them
RECURSIVE garbled_path(_, _, _, _)
garbled_path(selectors, before, between, after) ==
    LET n == Len(selectors)
        seg == child_path(0, <<>>, selectors[n].role, selectors[n].index)
    IN IF n = 1 THEN before \o seg \o after
       ELSE garbled_path(SubSeq(selectors, 1, n - 1), before, between, <<>>)
            \o between \o seg \o after

InitCodec ==
    /\ InitIdle(0)
    /\ kids = [h \in Handles |-> <<>>]
    /\ attrs = AttrsOf([h \in 2..MaxNodes |-> Attr_row])
    /\ unserializable = {}
    /\ cli = NoCli
    /\ \E selectors \in SelectorSeqs :
          codec = [stage |-> "new", selectors |-> selectors, text |-> <<>>,
                   decoded |-> <<>>, garbled |-> FALSE]

\* the f-strings of lines 207-210 applied along the path
Encode ==
    /\ codec.stage = "new"
    /\ codec' = [codec EXCEPT !.stage = "text", !.text = encode_path(codec.selectors)]
    /\ UNCHANGED <<searchVars, cli>>

\* somebody hands the path on with other text around its segments
Garble(before, between, after) ==
    /\ codec.stage = "text"
    /\ ~codec.garbled
    /\ codec' = [codec EXCEPT !.garbled = TRUE,
                              !.text = garbled_path(codec.selectors, before, between,
                                                    after)]
    /\ UNCHANGED <<searchVars, cli>>

\* _parse_path_string(path)
Decode ==
    /\ codec.stage = "text"
    /\ codec' = [codec EXCEPT !.stage = "done",
                              !.decoded = _parse_path_string(codec.text)]
    /\ UNCHANGED <<searchVars, cli>>

NextCodec ==
    \/ Encode
    \/ \E before \in JunkBefore, between \in JunkBetween, after \in JunkAfter :
          Garble(before, between, after)
    \/ Decode

SpecCodec == InitCodec /\ [][NextCodec]_vars

(***************************************************************************)
(* C22. Codec round trip and permissive decoding: the string written for a *)
(* non-empty selector sequence decodes to the same sequence in the same    *)
(* order, also with other text around and between its segments.            *)
(***************************************************************************)
CodecRoundTrip ==
    codec.stage = "done" =>
        /\ codec.decoded = codec.selectors
        /\ ~codec.garbled => codec.text = RenderSelectors(codec.selectors)

CodecRoundTripWitness ==
    /\ codec.stage = "done"
    /\ codec.garbled
    /\ Len(codec.selectors) = MaxSelectors
    /\ Len(codec.text) > Len(encode_path(codec.selectors)) + 3
    /\ \E i \in DOMAIN codec.selectors : codec.selectors[i].index >= 10
    /\ codec.decoded = codec.selectors

(***************************************************************************)
(* The same search twice on a static tree while the clock stands still:    *)
(* first with a cap no tree of the model reaches, then with a cap k.       *)
(***************************************************************************)
CapArgs == 0..MaxNodes

CapInputs ==
    IF args = NoArgs THEN {a \in AllArgs : a.max_results = QueryMaxResults}
    ELSE {[args EXCEPT !.max_results = k] : k \in CapArgs}

InitCap ==
    /\ InitCall(2)
    /\ \/ InitTrees
       \/ InitGraphs
       \/ InitBroken

NextCap ==
    \/ \E a \in CapInputs : StartSearch(a)
    \/ Visit
    \/ Descend
    \/ Return
    \/ FinishSearch

SpecCap == InitCap /\ [][NextCap]_vars

(***************************************************************************)
(* C25. The cap truncates to a prefix: with max_results = k >= 0 the       *)
(* search returns the first min(k, n) entries, same order, same paths, of  *)
(* the n entries the same search returns without an effective cap.         *)
(***************************************************************************)
CapIsPrefix ==
    (pc = "idle" /\ callsLeft = 0 /\ first.set /\ args.app_element # None)
        => LET n == Len(first.ret)
               k == args.max_results
           IN ret = SubSeq(first.ret, 1, IF k < n THEN k ELSE n)

CapIsPrefixWitness ==
    /\ pc = "idle"
    /\ callsLeft = 0
    /\ first.set
    /\ Len(first.ret) >= 3
    /\ args.max_results = 2
    /\ Len(ret) = 2
    /\ ret[2].depth >= 1
    /\ ret[2] = first.ret[2]
    /\ args.filters # <<>>

(***************************************************************************)
(* C26. No duplicates: within one call a handle is tested against the      *)
(* predicate at most once, no element is in the result twice, also when    *)
(* several routes lead to it, and the result's paths are pairwise          *)
(* distinct.                                                               *)
(***************************************************************************)
NoDuplicates ==
    /\ \A j, k \in DOMAIN log :
          (j < k /\ log[j].op = "match" /\ log[k].op = "match") => log[j].h # log[k].h
    /\ \A i, j \in DOMAIN results :
          i < j => (results[i].elem # results[j].elem /\ results[i].path # results[j].path)

NoDuplicatesWitness ==
    /\ pc = "idle"
    /\ ~IsTree
    /\ Len(results) >= 3
    /\ \E j, k \in DOMAIN log :
          /\ j < k
          /\ log[j].op = "call" /\ log[k].op = "call"
          /\ InBudget(log[j]) /\ InBudget(log[k])
          /\ log[j].h = log[k].h
          /\ log[j].depth # log[k].depth
          /\ log[j].h \in ResultElems

(***************************************************************************)
(* C27. Path length tracks depth: the path of a node reached at depth d    *)
(* has d selectors, and from depth 2 on it is the path of the node's       *)
(* parent followed by one more selector.                                   *)
(***************************************************************************)
PathLengthIsDepth ==
    /\ \A k \in DOMAIN stack :
          LET selectors == _parse_path_string(stack[k].path_prefix)
          IN /\ stack[k].current_depth = k - 1
             /\ Len(selectors) = stack[k].current_depth
             /\ stack[k].current_depth >= 2 =>
                   /\ SubSeq(selectors, 1, Len(selectors) - 1)
                         = _parse_path_string(stack[k - 1].path_prefix)
                   /\ stack[k].path_prefix
                         = stack[k - 1].path_prefix \o <<".">>
                           \o RenderSelectors(<<selectors[Len(selectors)]>>)
    /\ \A i \in DOMAIN results :
          Len(_parse_path_string(results[i].path)) = results[i].depth

PathLengthWitness ==
    /\ Len(stack) >= 3
    /\ Top.phase = "enter"
    /\ \E i \in DOMAIN results : results[i].depth = 2
    /\ Len(_parse_path_string(Top.path_prefix)) >= 2

(***************************************************************************)
(* C28. Resolve terminates, on cyclic children relations too: for n        *)
(* decoded selectors it enumerates children once per selector it           *)
(* processes, at most n times, and the selector that cannot be satisfied   *)
(* is the last thing it spends adapter calls on.                           *)
(***************************************************************************)
IsEnumeration(e) == e.op = "children"

\* the first selector, from idx on, parse_element_path cannot satisfy; 0: none
RECURSIVE FirstUnsatisfied(_, _, _)
FirstUnsatisfied(current, selectors, idx) ==
    IF idx > Len(selectors) THEN 0
    ELSE LET next == find_child(kids[current], selectors[idx].role, selectors[idx].index)
         IN IF next = None THEN idx ELSE FirstUnsatisfied(next, selectors, idx + 1)

ResolveCost ==
    (resolved.called /\ resolved.app_element # None) =>
        LET selectors == _parse_path_string(resolved.path)
            enums == SelectSeq(resolved.calls, IsEnumeration)
            failed == FirstUnsatisfied(resolved.app_element, selectors, 1)
            last == Len(resolved.calls) - Len(kids[enums[Len(enums)].h])
        IN /\ Len(enums) <= Len(selectors)
           /\ Len(enums) = (IF failed = 0 THEN Len(selectors) ELSE failed)
           /\ (failed = 0 /\ selectors # <<>>) <=> (resolved.out # None)
           /\ failed # 0 =>
                 /\ last >= 1
                 /\ resolved.calls[last] = enums[Len(enums)]
                 /\ \A k \in (last + 1)..Len(resolved.calls) :
                       /\ resolved.calls[k].op = "role"
                       /\ resolved.calls[k].h = kids[enums[Len(enums)].h][k - last]

ResolveCostWitness ==
    /\ resolved.called
    /\ Cyclic
    /\ Len(_parse_path_string(resolved.path)) = 4
    /\ resolved.out # None
    /\ \E j, k \in DOMAIN resolved.calls :
          /\ j < k
          /\ resolved.calls[j].op = "children"
          /\ resolved.calls[j] = resolved.calls[k]

(***************************************************************************)
(* C29. The depth boundary: a node visited at depth max_depth has its      *)
(* children enumerated and the role of each child read, and on elements    *)
(* reached at depth max_depth + 1 no other adapter call is made; nothing   *)
(* is reached deeper.                                                      *)
(***************************************************************************)
DepthBoundary ==
    /\ \A k \in DOMAIN log :
          /\ log[k].depth <= args.max_depth + 1
          /\ log[k].depth = args.max_depth + 1 => log[k].op \in {"role", "call"}
          /\ (log[k].op = "call" /\ log[k].depth = args.max_depth /\ InBudget(log[k])
                  /\ \A j \in 1..(k - 1) :
                        log[j].op = "match" => log[j].h # log[k].h)
                => (k < Len(log) /\ log[k + 1].op = "match" /\ log[k + 1].h = log[k].h)
    /\ pc = "idle" =>
          \A k \in DOMAIN log :
              (log[k].op = "children" /\ log[k].depth = args.max_depth)
                  => \A c \in Range(kids[log[k].h]) :
                        \E j \in (k + 1)..Len(log) :
                            /\ log[j].op = "role"
                            /\ log[j].h = c
                            /\ log[j].depth = args.max_depth + 1

DepthBoundaryWitness ==
    /\ pc = "idle"
    /\ ~timedOut
    /\ Len(ret) < args.max_results
    /\ args.max_depth = MaxDepthArg
    /\ args.filters = <<>>
    /\ \E k \in DOMAIN log :
          /\ log[k].op = "children"
          /\ log[k].depth = args.max_depth
          /\ Len(kids[log[k].h]) >= 2
          /\ Range(kids[log[k].h]) \cap ResultElems = {}

(***************************************************************************)
(* C30. Pruning does not mark a handle visited: the visited set holds      *)
(* exactly the handles tested against the predicate, so a handle cut off   *)
(* by the deadline, the cap or the depth bound is not in it, and a handle  *)
(* first reached beyond max_depth is tested, and reported if it matches,   *)
(* when it is reached again within max_depth.                              *)
(***************************************************************************)
Tested(k) == {log[j].h : j \in {i \in 1..k : log[i].op = "match"}}

PruningKeepsUnvisited ==
    /\ visited = Tested(Len(log))
    /\ \A k \in DOMAIN log :
          (log[k].op = "call" /\ ~InBudget(log[k]) /\ log[k].h \notin Tested(k - 1))
              => (k = Len(log) => log[k].h \notin visited)
    /\ \A j, k \in DOMAIN log :
          (/\ j < k
           /\ log[j].op = "call" /\ log[j].depth > args.max_depth
           /\ log[k].op = "call" /\ InBudget(log[k])
           /\ log[k].h = log[j].h
           /\ log[k].h \notin Tested(k - 1))
              => /\ k < Len(log)
                 /\ log[k + 1].op = "match"
                 /\ log[k + 1].h = log[k].h
                 /\ (Satisfies(log[k].h, args.filters) /\ log[k].h \notin unserializable)
                        => log[k].h \in ResultElems

PruningWitness ==
    /\ pc = "idle"
    /\ \E j, k \in DOMAIN log :
          /\ j < k
          /\ log[j].op = "call" /\ log[j].depth > args.max_depth
          /\ log[k].op = "call" /\ InBudget(log[k])
          /\ log[k].h = log[j].h
          /\ log[k].h \in ResultElems
          /\ args.filters # <<>>

(***************************************************************************)
(* ax-helper.py: one invocation of the command line, from the dispatch in  *)
(* main to the exit of the process.                                        *)
(***************************************************************************)
Commands == {"list-apps", "query", "click", "type", "get-value", "tree", "press"}

\* the commands that address an element by path
PathCommands == {"click", "type", "get-value"}

\* the primitive a command invokes, "" for the commands that invoke none
primitive(command) ==
    CASE command = "click" -> "perform_click"
      [] command = "type" -> "perform_type"
      [] command = "get-value" -> "get_value"
      [] command = "press" -> "perform_press_key"
      [] OTHER -> ""

\* paths given on the command line
CliPaths ==
    { <<>>,
      <<"r","o","w","[","0","]">>,
      <<"a","x","r","o","w","[","0","]">>,
      <<"a","x","r","o","w","[","0","]",".","a","x","r","o","w","[","0","]">> }

\* what the call of the primitive or of the engine does: it succeeds, it reports
\* failure (False), or an exception escapes it
Outcomes == {"ok", "failed", "raised"}

NoException == [kind |-> "none", code |-> 0]
SystemExit(code) == [kind |-> "SystemExit", code |-> code]
UnexpectedError == [kind |-> "Exception", code |-> 0]

\* mutant: main's handler is a bare except
main_catches_all(kind) == TRUE
\* line 366: except Exception, which SystemExit is not
main_catches(kind) == kind = "Exception"

\* mutant: the result of parse_element_path is not looked at
element_missing_unchecked(element) == FALSE
\* lines 113, 153, 195: if element is None
element_missing(element) == element = None

\* lines 57-60: exit_with_code prints its data and calls sys.exit, which raises
\* SystemExit; data that json.dumps cannot encode raises TypeError instead
exit_with_code(exit_code, serializable) ==
    IF serializable
    THEN cli' = [cli EXCEPT !.stage = "unwinding",
                            !.exits = Append(cli.exits, exit_code),
                            !.exception = SystemExit(exit_code)]
    ELSE cli' = [cli EXCEPT !.stage = "unwinding",
                            !.unexpected = TRUE,
                            !.exception = UnexpectedError]

InitCli ==
    /\ InitIdle(0)
    /\ \/ InitTrees
       \/ InitOddRoles
    /\ codec = NoCodec
    /\ \E command \in Commands, found \in BOOLEAN, path \in CliPaths :
          /\ command \notin PathCommands => path = <<>>
          /\ cli = [stage |-> "dispatched", command |-> command, found |-> found,
                    path |-> path, app_element |-> None, element |-> None,
                    acts |-> <<>>, outcome |-> "none", unexpected |-> FALSE,
                    exits |-> <<>>,
                    exception |-> NoException, exit |-> -1]

\* cmd_list_apps, lines 63-66
ListApps(outcome) ==
    /\ cli.stage = "dispatched"
    /\ cli.command = "list-apps"
    /\ outcome # "failed"
    /\ cli' = [cli EXCEPT !.outcome = outcome,
                          !.unexpected = outcome = "raised",
                          !.stage = IF outcome = "ok" THEN "returned" ELSE "unwinding",
                          !.exception = IF outcome = "ok" THEN NoException
                                        ELSE UnexpectedError]
    /\ UNCHANGED <<searchVars, codec>>

\* get_app_by_name and the test that follows it in every other command
GetApp ==
    /\ cli.stage = "dispatched"
    /\ cli.command # "list-apps"
    /\ IF ~cli.found
       THEN exit_with_code(2, TRUE)
       ELSE cli' = [cli EXCEPT !.app_element = Root,
                               !.stage = IF cli.command \in PathCommands
                                         THEN "resolve" ELSE "call"]
    /\ UNCHANGED <<searchVars, codec>>

\* parse_element_path and the test that follows it, lines 112-118, 152-158, 194-199
ResolveElement ==
    /\ cli.stage = "resolve"
    /\ LET element == parse_element_path(cli.app_element, cli.path)
       IN IF element_missing(element)
          THEN exit_with_code(2, TRUE)
          ELSE cli' = [cli EXCEPT !.element = element, !.stage = "call"]
    /\ UNCHANGED <<searchVars, codec>>

\* the call of the primitive (click, type, get-value, press) or of query_elements
\* (query, tree) and what the command does with its answer
Perform(outcome) ==
    /\ cli.stage = "call"
    /\ cli.command \in {"query", "tree"} => outcome # "failed"
    /\ LET target == IF cli.command = "press" THEN cli.app_element ELSE cli.element
           acts == IF primitive(cli.command) = "" THEN cli.acts
                   ELSE Append(cli.acts, [prim |-> primitive(cli.command), h |-> target])
           acted == [cli EXCEPT !.acts = acts, !.outcome = outcome]
       IN CASE outcome = "raised" ->
                 cli' = [acted EXCEPT !.stage = "unwinding",
                                      !.unexpected = TRUE,
                                      !.exception = UnexpectedError]
            [] outcome = "failed" /\ cli.command \in {"click", "type", "press"} ->
                 cli' = [acted EXCEPT !.stage = "unwinding",
                                      !.exits = Append(cli.exits, 1),
                                      !.exception = SystemExit(1)]
            [] OTHER ->
                 cli' = [acted EXCEPT !.stage = "returned"]
    /\ UNCHANGED <<searchVars, codec>>

\* line 364: exit_with_code(0, result), inside the try block
ExitSuccess(serializable) ==
    /\ cli.stage = "returned"
    /\ exit_with_code(0, serializable)
    /\ UNCHANGED <<searchVars, codec>>

\* lines 366-371: the handler of main, then the exit of the process
Unwind ==
    /\ cli.stage = "unwinding"
    /\ IF main_catches(cli.exception.kind)
       THEN cli' = [cli EXCEPT !.stage = "exited",
                               !.exits = Append(cli.exits, 1),
                               !.exception = SystemExit(1),
                               !.exit = 1]
       ELSE cli' = [cli EXCEPT !.stage = "exited", !.exit = cli.exception.code]
    /\ UNCHANGED <<searchVars, codec>>

NextCli ==
    \/ \E outcome \in Outcomes : ListApps(outcome)
    \/ GetApp
    \/ ResolveElement
    \/ \E outcome \in Outcomes : Perform(outcome)
    \/ \E serializable \in BOOLEAN : ExitSuccess(serializable)
    \/ Unwind

SpecCli == InitCli /\ [][NextCli]_vars


(***************************************************************************)
(* C23.  Resolve-before-act: in the click, type and get-value commands the *)
(* action primitive of the command is invoked only after                   *)
(* parse_element_path returned a handle in the same invocation, and on     *)
(* that handle; when the application or the element is not found no action *)
(* primitive is invoked at all.                                            *)
(***************************************************************************)
ResolveBeforeAct ==
    (cli.stage # "off" /\ cli.command \in PathCommands) =>
       /\ Len(cli.acts) <= 1
       /\ \A i \in 1..Len(cli.acts) :
             /\ cli.acts[i].prim = primitive(cli.command)
             /\ cli.app_element # None
             /\ cli.acts[i].h # None
             /\ cli.acts[i].h = parse_element_path(cli.app_element, cli.path)
       /\ (~cli.found \/ parse_element_path(Root, cli.path) = None) => cli.acts = <<>>

ResolveBeforeActWitness ==
    /\ cli.stage = "exited"
    /\ cli.command = "get-value"
    /\ Len(cli.acts) = 1
    /\ cli.acts[1].h \notin {None, Root}
    /\ Len(cli.path) > 8

(***************************************************************************)
(* C24.  Exit codes: every invocation of a command ends with exactly one   *)
(* exit code: 2 when the application or the addressed element is not       *)
(* found, 1 when an action fails or an unexpected error occurs, 0          *)
(* otherwise; an exit with code 2 raised inside a command is not converted *)
(* to 1 by the handler of main.                                            *)
(***************************************************************************)
NotFound ==
    \/ cli.command # "list-apps" /\ ~cli.found
    \/ cli.command \in PathCommands /\ parse_element_path(Root, cli.path) = None

ActionFailed ==
    cli.command \in {"click", "type", "press"} /\ cli.outcome = "failed"

ExitCodes ==
    /\ cli.stage # "off" => Len(cli.exits) <= 1
    /\ cli.stage = "exited" =>
          /\ Len(cli.exits) = 1
          /\ cli.exit = cli.exits[1]
          /\ cli.exit = (IF NotFound THEN 2
                         ELSE IF ActionFailed \/ cli.unexpected THEN 1
                         ELSE 0)
          /\ NotFound => ~cli.unexpected /\ cli.outcome = "none"

ExitCodesWitness ==
    /\ cli.stage = "exited"
    /\ cli.command = "click"
    /\ cli.found
    /\ cli.exit = 2
    /\ cli.exits = <<2>>

====
